---- MODULE Spec2Model ----
(***************************************************************************)
(* DocumentSearchEngine of signac/core/search_engine.py: the tree          *)
(* flattener, the path hasher, the index builder, the filter validator and *)
(* the query evaluator, with find modelled as the generator it is.         *)
(*                                                                         *)
(* Trees (documents, filters, include specifications) are records          *)
(*   [t, v, kids]: t = "S" a scalar with value v, t = "M" a mapping whose  *)
(*   kids is the sequence of <<key, value>> pairs in iteration order,      *)
(*   t = "L" a list whose kids are <<"", element>>, t = "N" Python's None. *)
(* Scalars are strings: "1", "2", "3" numbers, "T" True, "F" False.        *)
(* A branch is kept flattened: the tuple of its keys followed by its leaf. *)
(***************************************************************************)
EXTENDS Integers, Sequences, FiniteSets, TLC

VARIABLES docs, include, ids, index, included,
          pc, filter, branches, pos, result, pending, yielded, err, ret

vars == <<docs, include, ids, index, included,
          pc, filter, branches, pos, result, pending, yielded, err, ret>>

engine == <<docs, include, ids, index, included>>

-----------------------------------------------------------------------------
(* Tree values *)

None == [t |-> "N", v |-> "", kids |-> <<>>]

S(x) == [t |-> "S", v |-> x, kids |-> <<>>]

M(kv) == [t |-> "M", v |-> "", kids |-> kv]

L(items) == [t |-> "L", v |-> "", kids |-> [i \in 1..Len(items) |-> <<"", items[i]>>]]

True == S("T")

False == S("F")

EmptyMap == M(<<>>)

isMapping(x) == x.t = "M"

isList(x) == x.t = "L"

\* Mapping.get(k, default)
MapGet(m, k, default) ==
    IF \E i \in 1..Len(m.kids) : m.kids[i][1] = k
    THEN m.kids[CHOOSE i \in 1..Len(m.kids) : m.kids[i][1] = k][2]
    ELSE default

\* Python truth value of an include directive: a boolean, or a mapping
\* (true unless empty)
Truthy(x) ==
    CASE x.t = "S" -> x.v = "T"
      [] x.t = "M" -> Len(x.kids) > 0
      [] x.t = "L" -> Len(x.kids) > 0
      [] OTHER -> FALSE

-----------------------------------------------------------------------------
(* _traverse_tree followed by tuple(_flatten(branch)): the sequence of     *)
(* flattened branches of t under the include directive, in yield order.    *)

PrefixAll(k, bs) == [i \in 1..Len(bs) |-> <<k>> \o bs[i]]

RECURSIVE _traverse_tree(_, _)
RECURSIVE TraverseKids(_, _, _)

\* MappingKid with include.get(k, True): a key the directive does not list
\* is descended into
MappingKid_absentIncluded(t, inc, i) ==
    LET k == t.kids[i][1]
        c == t.kids[i][2]
    IN  IF inc = None \/ inc = True
        THEN PrefixAll(k, _traverse_tree(c, None))
        ELSE IF ~Truthy(MapGet(inc, k, True))
             THEN <<>>
             ELSE PrefixAll(k, _traverse_tree(c, MapGet(inc, k, None)))

\* the loop over a mapping's keys
MappingKid(t, inc, i) ==
    LET k == t.kids[i][1]
        c == t.kids[i][2]
    IN  IF inc = None \/ inc = True
        THEN PrefixAll(k, _traverse_tree(c, None))
        ELSE IF ~Truthy(MapGet(inc, k, False))
             THEN <<>>
             ELSE PrefixAll(k, _traverse_tree(c, MapGet(inc, k, None)))

TraverseKids(t, inc, i) ==
    IF i > Len(t.kids) THEN <<>>
    ELSE (IF isList(t) THEN _traverse_tree(t.kids[i][2], inc)
                       ELSE MappingKid(t, inc, i))
         \o TraverseKids(t, inc, i + 1)

_traverse_tree(t, inc) ==
    IF inc = False THEN <<>>
    ELSE IF isList(t) \/ isMapping(t) THEN TraverseKids(t, inc, 1)
    ELSE <<  <<t.v>>  >>

\* _valid_filter
RECURSIVE _valid_filter(_)
_valid_filter(f) ==
    IF isMapping(f)
    THEN \A i \in 1..Len(f.kids) : _valid_filter(f.kids[i][2])
    ELSE ~isList(f)

-----------------------------------------------------------------------------
(* The path hasher: Python's hash of a tuple. Equal tuples hash equally,   *)
(* and True == 1 and False == 0 in Python, so a tuple is represented by    *)
(* its elements with the booleans replaced by the numbers they equal.      *)
(* Other collisions of the built-in hash are not modelled.                 *)

Canon(x) == IF x = "T" THEN "1" ELSE IF x = "F" THEN "0" ELSE x

Hash(f) == [i \in 1..Len(f) |-> Canon(f[i])]

\* dict.get(h, default) on a table kept as a function over its keys
TableGet(tab, h, default) == IF h \in DOMAIN tab THEN tab[h] ELSE default

\* f[:-i] of Python: f[:-0] is f[:0], the empty tuple
SliceNeg(f, i) == IF i = 0 THEN <<>> ELSE SubSeq(f, 1, Len(f) - i)

-----------------------------------------------------------------------------
(* DocumentSearchEngine._build_index *)

EmptyTable == [h \in {} |-> {}]

doc_id(doc) == MapGet(doc, "_id", None).v

\* IndexAdd with index[h] = {id}: the ids recorded earlier are overwritten
IndexAdd_overwrite(idx, h, id) ==
    [x \in DOMAIN idx \cup {h} |-> IF x = h THEN {id} ELSE idx[x]]

\* index[h].add(id) on the defaultdict(set)
IndexAdd(idx, h, id) ==
    [x \in DOMAIN idx \cup {h} |->
        IF x = h THEN TableGet(idx, h, {}) \cup {id} ELSE idx[x]]

\* included[h] = decision
TablePut(tab, h, d) ==
    [x \in DOMAIN tab \cup {h} |-> IF x = h THEN d ELSE tab[x]]

\* for branch in _traverse_tree(doc, include=include): index[hash(f)].add(id)
RECURSIVE IndexBranches(_, _, _, _)
IndexBranches(idx, bs, i, id) ==
    IF i > Len(bs) THEN idx
    ELSE IndexBranches(IndexAdd(idx, Hash(bs[i]), id), bs, i + 1, id)

\* IndexDoc with ids.add inside the loop over the branches: a document with
\* no indexed branch is not recorded
IndexDoc_idWithBranch(acc, doc, inc) ==
    [ids   |-> IF _traverse_tree(doc, inc) = <<>> THEN acc.ids
               ELSE acc.ids \cup {doc_id(doc)},
     index |-> IndexBranches(acc.index, _traverse_tree(doc, inc), 1, doc_id(doc))]

\* one round of "for doc in docs": the id is recorded, then the branches
IndexDoc(acc, doc, inc) ==
    [ids   |-> acc.ids \cup {doc_id(doc)},
     index |-> IndexBranches(acc.index, _traverse_tree(doc, inc), 1, doc_id(doc))]

RECURSIVE IndexDocs(_, _, _, _)
IndexDocs(acc, ds, i, inc) ==
    IF i > Len(ds) THEN acc
    ELSE IndexDocs(IndexDoc(acc, ds[i], inc), ds, i + 1, inc)

\* for branch in _traverse_tree(include): included[hash(f[:-1])] = f[-1]
RECURSIVE IncludedBranches(_, _, _)
IncludedBranches(tab, bs, i) ==
    IF i > Len(bs) THEN tab
    ELSE IncludedBranches(
            TablePut(tab, Hash(SubSeq(bs[i], 1, Len(bs[i]) - 1)), bs[i][Len(bs[i])]),
            bs, i + 1)

\* included is None without an include specification, a dict otherwise
BuildIncluded(inc) ==
    IF inc = None
    THEN [isNone |-> TRUE, tab |-> EmptyTable]
    ELSE [isNone |-> FALSE,
          tab |-> IncludedBranches(EmptyTable, _traverse_tree(inc, None), 1)]

_build_index(ds, inc) ==
    LET acc == IndexDocs([ids |-> {}, index |-> EmptyTable], ds, 1, inc)
    IN  [ids |-> acc.ids, index |-> acc.index, included |-> BuildIncluded(inc)]

-----------------------------------------------------------------------------
(* DocumentSearchEngine._filter_supported and check_filter *)

\* BranchSupported with included.get(h, True): a prefix the table does not
\* hold counts as included
BranchSupported_defaultTrue(incl, f) ==
    \E i \in 0..(Len(f) - 1) :
        TableGet(incl.tab, Hash(SliceNeg(f, i)), "T") = "T"

\* for i in range(len(f)): if self.included.get(hash(f[:-i]), False): break
BranchSupported(incl, f) ==
    \E i \in 0..(Len(f) - 1) :
        TableGet(incl.tab, Hash(SliceNeg(f, i)), "F") = "T"

_filter_supported(incl, f) ==
    IF incl.isNone THEN TRUE
    ELSE LET bs == _traverse_tree(f, None)
         IN  \A j \in 1..Len(bs) : BranchSupported(incl, bs[j])

\* check_filter with the two checks in the other order
check_filter_supportFirst(incl, f) ==
    IF f = None THEN "ok"
    ELSE IF ~_filter_supported(incl, f) THEN "RuntimeError"
    ELSE IF ~_valid_filter(f) THEN "ValueError"
    ELSE "ok"

\* the outcome of check_filter: "ok", or the exception raised
check_filter(incl, f) ==
    IF f = None THEN "ok"
    ELSE IF ~_valid_filter(f) THEN "ValueError"
    ELSE IF ~_filter_supported(incl, f) THEN "RuntimeError"
    ELSE "ok"

-----------------------------------------------------------------------------
(* DocumentSearchEngine.find, one round of its loop over the branches.     *)
(* result is None before the first branch: [isNone |-> TRUE].              *)

NoResult == [isNone |-> TRUE, ids |-> {}]

\* IndexLookup with self.index[h]: the defaultdict inserts an empty set for
\* a hash it does not hold
IndexLookup_getitem(idx, h) ==
    [m |-> TableGet(idx, h, {}),
     index |-> [x \in DOMAIN idx \cup {h} |-> TableGet(idx, x, {})]]

\* m = self.index.get(h, set()): the value read, and the index afterwards
\* (dict.get never inserts into the defaultdict)
IndexLookup(idx, h) == [m |-> TableGet(idx, h, {}), index |-> idx]

\* if result is None: result = m ... else: result = result.intersection(m)
\* ("if m is None: return" never applies: m is a set)
Intersect(res, m) ==
    IF res.isNone THEN [isNone |-> FALSE, ids |-> m]
    ELSE [isNone |-> FALSE, ids |-> res.ids \cap m]

\* whether the loop goes on to its next branch after this round
LoopContinues(res, bs, i) == i <= Len(bs)

\* find run to its end in one piece on a given index: the outcome
RECURSIVE FindLoop(_, _, _, _)
FindLoop(idx, bs, i, res) ==
    IF ~LoopContinues(res, bs, i) THEN res
    ELSE FindLoop(idx, bs, i + 1, Intersect(res, IndexLookup(idx, Hash(bs[i])).m))

FindAlone(eng, f) ==
    LET c == check_filter(eng.included, f)
    IN  IF c # "ok" THEN [err |-> c, ids |-> {}]
        ELSE IF f = None \/ Len(f.kids) = 0 THEN [err |-> "ok", ids |-> eng.ids]
        ELSE [err |-> "ok",
              ids |-> FindLoop(eng.index, _traverse_tree(f, None), 1, NoResult).ids]

-----------------------------------------------------------------------------
(* Inputs: the documents, include specifications and filters the callers   *)
(* may pass.                                                               *)

\* most documents of a collection
MaxDocs == 2

\* most concurrent callers
NumProcs == 2

K1(k, x) == M(<< <<k, x>> >>)

K2(k, x, l, y) == M(<< <<k, x>>, <<l, y>> >>)

DocBodies ==
    << K2("a", S("1"), "b", K1("c", S("2"))),
       K2("a", S("1"), "b", K1("c", S("3"))),
       K2("a", L(<<S("1"), S("2")>>), "b", S("1")),
       K1("b", L(<<K1("c", S("1")), K1("d", S("2"))>>)),
       M(<< <<"a", S("T")>>, <<"b", K2("d", S("1"), "e", S("2"))>>, <<"c", S("1")>> >>),
       K2("a", EmptyMap, "b", K1("d", S("1"))) >>

IdOf(i) == CASE i = 1 -> "i1" [] i = 2 -> "i2" [] i = 3 -> "i3" [] OTHER -> "i4"

MakeDoc(i, body) == M(<< <<"_id", S(IdOf(i))>> >> \o body.kids)

\* collections of at most MaxDocs documents with unique ids
Collections ==
    UNION { { [i \in 1..n |-> MakeDoc(i, DocBodies[c[i]])] :
                c \in { c \in [1..n -> 1..Len(DocBodies)] :
                          \A i \in 1..n, j \in 1..n : i < j => c[i] < c[j] } } :
            n \in 0..MaxDocs }

Includes ==
    { None,
      EmptyMap,
      K1("a", True),
      K2("a", True, "b", False),
      K2("a", True, "b", K2("c", False, "d", True)),
      K1("b", K1("d", True)),
      K2("a", K1("c", True), "b", K1("c", True)),
      K2("_id", True, "b", True) }

FScalars == {S("1"), S("2")}

FLeaves == FScalars \cup {EmptyMap, L(<<S("1"), S("2")>>)}

FNested == { K1(k, x) : k \in {"c", "d", "e"}, x \in FLeaves }

FValues == FLeaves \cup FNested

FFirst == {S("1"), EmptyMap, K1("c", S("1")), L(<<S("1")>>)}

Filters ==
    {None, EmptyMap}
    \cup { K1(k, x) : k \in {"a", "b", "c"}, x \in FValues }
    \cup { K2("a", x, "b", y) : x \in FFirst, y \in FValues }
    \cup { K1("b", K2("c", S("2"), "d", S("1"))), K1("b", K2("d", S("1"), "e", S("2"))) }

\* the filter k1: {k2: {...: leaf}} of a flattened branch
RECURSIVE FilterOfBranch(_)
FilterOfBranch(b) ==
    IF Len(b) = 1 THEN S(b[1]) ELSE K1(b[1], FilterOfBranch(Tail(b)))

Range(s) == { s[i] : i \in 1..Len(s) }

BranchFilters(ds) ==
    UNION { { FilterOfBranch(b) : b \in Range(_traverse_tree(ds[i], None)) } :
            i \in 1..Len(ds) }

ConcCollections ==
    { <<MakeDoc(1, DocBodies[1]), MakeDoc(2, DocBodies[2])>> }

ConcIncludes == {None, K2("a", True, "b", K1("d", True))}

ConcFilters ==
    { None,
      K1("a", S("1")),
      K2("a", S("1"), "b", K1("c", S("2"))),
      K2("b", K1("c", S("9")), "a", S("1")),
      K1("a", L(<<S("1")>>)) }

-----------------------------------------------------------------------------
(* The engine after construction, and the calls made on it. A caller p is  *)
(* idle, or inside one call: pc[p] is "created" for a generator find has   *)
(* returned and nobody has advanced yet, "loop" inside the loop over the   *)
(* filter's branches, "yielding" while ids are handed out, "done" after    *)
(* the generator is exhausted, "raised" after an exception; "checked" and  *)
(* "sized" after check_filter and len.                                     *)

Idle(P) ==
    /\ pc = [p \in P |-> "idle"]
    /\ filter = [p \in P |-> None]
    /\ branches = [p \in P |-> <<>>]
    /\ pos = [p \in P |-> 0]
    /\ result = [p \in P |-> NoResult]
    /\ pending = [p \in P |-> {}]
    /\ yielded = [p \in P |-> {}]
    /\ err = [p \in P |-> ""]
    /\ ret = [p \in P |-> 0]

\* __init__: self.ids, self.index, self.included = self._build_index(docs, include)
Constructed(ds, inc) ==
    /\ docs = ds
    /\ include = inc
    /\ ids = _build_index(ds, inc).ids
    /\ index = _build_index(ds, inc).index
    /\ included = _build_index(ds, inc).included

Init ==
    /\ \E ds \in Collections, inc \in Includes : Constructed(ds, inc)
    /\ Idle({1})

InitConc ==
    /\ \E ds \in ConcCollections, inc \in ConcIncludes : Constructed(ds, inc)
    /\ Idle(1..NumProcs)

\* the locals of caller p, everything else as it is
Locals(p, c, f, bs, i, res, pend, yl, e, r) ==
    /\ pc' = [pc EXCEPT ![p] = c]
    /\ filter' = [filter EXCEPT ![p] = f]
    /\ branches' = [branches EXCEPT ![p] = bs]
    /\ pos' = [pos EXCEPT ![p] = i]
    /\ result' = [result EXCEPT ![p] = res]
    /\ pending' = [pending EXCEPT ![p] = pend]
    /\ yielded' = [yielded EXCEPT ![p] = yl]
    /\ err' = [err EXCEPT ![p] = e]
    /\ ret' = [ret EXCEPT ![p] = r]

\* engine.find(f): a generator is created, none of its code has run
CallFind(p, f) ==
    /\ pc[p] = "idle"
    /\ Locals(p, "created", f, <<>>, 0, NoResult, {}, {}, "", 0)
    /\ UNCHANGED engine

\* the first next(): check_filter, then the choice between the two arms
FindBegin(p) ==
    /\ pc[p] = "created"
    /\ LET c == check_filter(included, filter[p])
       IN  IF c # "ok"
           THEN Locals(p, "raised", filter[p], <<>>, 0, NoResult, {}, {}, c, 0)
           ELSE IF filter[p] = None \/ Len(filter[p].kids) = 0
           THEN Locals(p, "yielding", filter[p], <<>>, 0, NoResult, ids, {}, "", 0)
           ELSE Locals(p, "loop", filter[p], _traverse_tree(filter[p], None), 1,
                       NoResult, {}, {}, "", 0)
    /\ UNCHANGED engine

\* one round of "for branch in _traverse_tree(filter)"
FindStep(p) ==
    /\ pc[p] = "loop"
    /\ LoopContinues(result[p], branches[p], pos[p])
    /\ LET lk == IndexLookup(index, Hash(branches[p][pos[p]]))
       IN  /\ index' = lk.index
           /\ Locals(p, "loop", filter[p], branches[p], pos[p] + 1,
                     Intersect(result[p], lk.m), {}, {}, "", 0)
    /\ UNCHANGED <<docs, include, ids, included>>

\* after the loop: "if result is None: return", else the ids are yielded
FindLoopEnd(p) ==
    /\ pc[p] = "loop"
    /\ ~LoopContinues(result[p], branches[p], pos[p])
    /\ IF result[p].isNone
       THEN Locals(p, "done", filter[p], branches[p], pos[p], result[p], {}, {}, "", 0)
       ELSE Locals(p, "yielding", filter[p], branches[p], pos[p], result[p],
                   result[p].ids, {}, "", 0)
    /\ UNCHANGED engine

\* "yield _id": a set is iterated in no particular order
YieldId(p) ==
    /\ pc[p] = "yielding"
    /\ \E id \in pending[p] :
          Locals(p, "yielding", filter[p], branches[p], pos[p], result[p],
                 pending[p] \ {id}, yielded[p] \cup {id}, "", 0)
    /\ UNCHANGED engine

\* the generator ends (StopIteration)
FindExhausted(p) ==
    /\ pc[p] = "yielding"
    /\ pending[p] = {}
    /\ Locals(p, "done", filter[p], branches[p], pos[p], result[p], {}, yielded[p], "", 0)
    /\ UNCHANGED engine

\* the caller drops the generator part-way
Abandon(p) ==
    /\ pc[p] \in {"created", "loop", "yielding"}
    /\ Locals(p, "idle", None, <<>>, 0, NoResult, {}, {}, "", 0)
    /\ UNCHANGED engine

\* engine.check_filter(f)
CallCheck(p, f) ==
    /\ pc[p] = "idle"
    /\ Locals(p, "checked", f, <<>>, 0, NoResult, {}, {}, check_filter(included, f), 0)
    /\ UNCHANGED engine

\* len(engine)
CallSize(p) ==
    /\ pc[p] = "idle"
    /\ Locals(p, "sized", None, <<>>, 0, NoResult, {}, {}, "", Cardinality(ids))
    /\ UNCHANGED engine

\* the caller has its answer and is free for its next call
Return(p) ==
    /\ pc[p] \in {"done", "raised", "checked", "sized"}
    /\ Locals(p, "idle", None, <<>>, 0, NoResult, {}, {}, "", 0)
    /\ UNCHANGED engine

Next ==
    \/ \E f \in Filters \cup BranchFilters(docs) : CallFind(1, f)
    \/ FindBegin(1)
    \/ FindStep(1)
    \/ FindLoopEnd(1)
    \/ YieldId(1)
    \/ FindExhausted(1)
    \/ Abandon(1)
    \/ \E f \in Filters : CallCheck(1, f)
    \/ CallSize(1)
    \/ Return(1)

Spec == Init /\ [][Next]_vars

NextConc ==
    \E p \in 1..NumProcs :
        \/ \E f \in ConcFilters : CallFind(p, f)
        \/ FindBegin(p)
        \/ FindStep(p)
        \/ FindLoopEnd(p)
        \/ YieldId(p)
        \/ FindExhausted(p)
        \/ Abandon(p)
        \/ \E f \in ConcFilters : CallCheck(p, f)
        \/ CallSize(p)
        \/ Return(p)

SpecConc == InitConc /\ [][NextConc]_vars

-----------------------------------------------------------------------------
(* What the properties below speak about *)

Callers == DOMAIN pc

DocIds == { doc_id(docs[i]) : i \in 1..Len(docs) }

\* the engine as it stands, and as construction left it
Engine == [ids |-> ids, index |-> index, included |-> included]

Built == _build_index(docs, include)

\* the root-to-leaf branches of a tree, flattened: a list contributes the
\* branches of each of its elements and is itself no part of the path
RECURSIVE DocBranches(_)
DocBranches(t) ==
    IF isMapping(t)
    THEN UNION { { <<t.kids[i][1]>> \o b : b \in DocBranches(t.kids[i][2]) } :
                 i \in 1..Len(t.kids) }
    ELSE IF isList(t)
    THEN UNION { DocBranches(t.kids[i][2]) : i \in 1..Len(t.kids) }
    ELSE { <<t.v>> }

\* whether the include specification keeps a branch: followed key by key,
\* a directive of True (or none at all) keeps everything below, False
\* nothing; under a mapping the key must be listed with a true value, and a
\* leaf met while the directive is still a mapping is kept
RECURSIVE Kept(_, _)
Kept(b, inc) ==
    IF inc = None \/ inc = True THEN TRUE
    ELSE IF inc = False THEN FALSE
    ELSE IF Len(b) = 1 THEN TRUE
    ELSE /\ Truthy(MapGet(inc, b[1], False))
         /\ Kept(Tail(b), MapGet(inc, b[1], False))

\* some mapping value, at any depth, is a list
RECURSIVE HasListValue(_)
HasListValue(f) ==
    /\ isMapping(f)
    /\ \E i \in 1..Len(f.kids) :
          isList(f.kids[i][2]) \/ HasListValue(f.kids[i][2])

\* a find on filter[p] got past check_filter
Started(p) == pc[p] \in {"loop", "yielding", "done"}

\* the top-level items of f at the positions I, as a filter of their own
Part(f, I) ==
    LET sel == { i \in 1..Len(f.kids) : i \in I }
        RECURSIVE Pick(_)
        Pick(i) == IF i > Len(f.kids) THEN <<>>
                   ELSE (IF i \in sel THEN <<f.kids[i]>> ELSE <<>>) \o Pick(i + 1)
    IN  M(Pick(1))

TopKeys(f) == { f.kids[i][1] : i \in 1..Len(f.kids) }

-----------------------------------------------------------------------------
(* C1. Intersection correctness: when find(F) has run to its end on a     *)
(* mapping F, then for every way of splitting F at the top level into F1   *)
(* and F2 with disjoint keys (F is their top-level merge), the ids yielded *)
(* equal the intersection of what find(F1) and find(F2) yield.             *)
C1_IntersectionCorrectness ==
    \A p \in Callers :
        (pc[p] = "done" /\ isMapping(filter[p])) =>
            \A I \in SUBSET (1..Len(filter[p].kids)) :
                LET F1 == Part(filter[p], I)
                    F2 == Part(filter[p], (1..Len(filter[p].kids)) \ I)
                IN  (/\ TopKeys(F1) \cap TopKeys(F2) = {}
                     /\ FindAlone(Engine, F1).err = "ok"
                     /\ FindAlone(Engine, F2).err = "ok")
                    => yielded[p] = FindAlone(Engine, F1).ids
                                      \cap FindAlone(Engine, F2).ids

(* C2. Include pruning: on an engine built with include = {a: True,       *)
(* b: False}, find({b: x}) raises RuntimeError for every x that is a       *)
(* scalar or a nested mapping (the empty mapping too): it never gets past  *)
(* the check.                                                              *)
C2_IncludePruning ==
    \A p \in Callers :
        (/\ include = K2("a", True, "b", False)
         /\ pc[p] \in {"loop", "yielding", "done", "raised"}
         /\ isMapping(filter[p])
         /\ TopKeys(filter[p]) = {"b"}
         /\ _valid_filter(filter[p]))
        => (pc[p] = "raised" /\ err[p] = "RuntimeError")

(* C3. Round-trip membership: with no include specification, find on the  *)
(* filter k1: {k2: {...: leaf}} rebuilt from a branch of a document D      *)
(* raises nothing and yields D's id.                                       *)
C3_RoundTripMembership ==
    \A p \in Callers :
        (include = None /\ pc[p] \in {"done", "raised"}) =>
            \A i \in 1..Len(docs) :
                \A b \in DocBranches(docs[i]) :
                    filter[p] = FilterOfBranch(b) =>
                        (pc[p] = "done" /\ doc_id(docs[i]) \in yielded[p])

C3_Witness ==
    \E p \in Callers :
        /\ include = None
        /\ pc[p] = "done"
        /\ Len(docs) = 2
        /\ filter[p] = K1("b", K1("c", S("1")))
        /\ <<"b", "c", "1">> \in DocBranches(docs[2])
        /\ yielded[p] = {doc_id(docs[2])}

(* C4. Empty filter identity: whatever the include specification,         *)
(* find(None) and find({}) raise nothing and yield exactly the id of every *)
(* document supplied, check_filter accepts both, and len is the number of  *)
(* those ids.                                                              *)
C4_EmptyFilterIdentity ==
    \A p \in Callers :
        /\ (pc[p] \in {"loop", "done", "raised"} /\ filter[p] \in {None, EmptyMap})
              => (pc[p] = "done" /\ yielded[p] = DocIds)
        /\ (pc[p] = "yielding" /\ filter[p] \in {None, EmptyMap})
              => (pending[p] \cup yielded[p] = DocIds)
        /\ (pc[p] = "checked" /\ filter[p] \in {None, EmptyMap}) => err[p] = "ok"
        /\ pc[p] = "sized" => ret[p] = Cardinality(DocIds)

C4_Witness ==
    \E p \in Callers :
        /\ include = EmptyMap
        /\ DOMAIN index = {}
        /\ pc[p] = "done"
        /\ filter[p] = EmptyMap
        /\ Cardinality(yielded[p]) = 2

(* C5. List-as-filter rejection: whatever the documents and the include   *)
(* specification, check_filter and find on a filter with a list as some    *)
(* mapping value raise ValueError, never RuntimeError.                     *)
C5_ListFilterRejected ==
    \A p \in Callers :
        (pc[p] \in {"loop", "yielding", "done", "raised", "checked"}
           /\ HasListValue(filter[p]))
        => (pc[p] \in {"raised", "checked"} /\ err[p] = "ValueError")

C5_Witness ==
    \E p \in Callers :
        /\ include = K2("a", True, "b", False)
        /\ pc[p] = "raised"
        /\ filter[p] = K1("b", K1("c", L(<<S("1"), S("2")>>)))
        /\ err[p] = "ValueError"

(* C6. The docstring of check_filter: with include = {a: True, b: {c:     *)
(* False, d: True}} the filters {a: x}, {a: x, b: y} and {b: {d: z}} raise *)
(* no RuntimeError, and {b: {c: x}}, {b: {e: y}} and {c: z} raise it, for  *)
(* all values x, y, z a filter may hold.                                   *)
C6_DocstringExamples ==
    \A p \in Callers :
        (/\ include = K2("a", True, "b", K2("c", False, "d", True))
         /\ pc[p] \in {"loop", "yielding", "done", "raised", "checked"}
         /\ isMapping(filter[p])
         /\ _valid_filter(filter[p]))
        => LET f == filter[p]
               inner == MapGet(f, "b", None)
           IN  /\ (\/ TopKeys(f) = {"a"}
                   \/ TopKeys(f) = {"a", "b"}
                   \/ (TopKeys(f) = {"b"} /\ isMapping(inner) /\ TopKeys(inner) = {"d"}))
                  => err[p] # "RuntimeError"
               /\ (\/ (TopKeys(f) = {"b"} /\ isMapping(inner) /\ TopKeys(inner) = {"c"})
                   \/ (TopKeys(f) = {"b"} /\ isMapping(inner) /\ TopKeys(inner) = {"e"})
                   \/ TopKeys(f) = {"c"})
                  => err[p] = "RuntimeError"

(* C7. After construction, under every interleaving of the steps of       *)
(* concurrent find, check_filter and len calls, abandoned finds included,  *)
(* the id set, the index and the included-paths table stay what            *)
(* construction made them, and every call has the outcome it has when run  *)
(* alone on the constructed engine.                                        *)
C7_ReadOnlyUnderConcurrency ==
    /\ ids = Built.ids
    /\ index = Built.index
    /\ included = Built.included
    /\ \A p \in Callers :
          /\ pc[p] = "raised" => err[p] = FindAlone(Built, filter[p]).err
          /\ Started(p) => FindAlone(Built, filter[p]).err = "ok"
          /\ pc[p] = "yielding"
                => pending[p] \cup yielded[p] = FindAlone(Built, filter[p]).ids
          /\ pc[p] = "done" => yielded[p] = FindAlone(Built, filter[p]).ids
          /\ pc[p] = "checked" => err[p] = check_filter(Built.included, filter[p])
          /\ pc[p] = "sized" => ret[p] = Cardinality(Built.ids)

C7_Witness ==
    /\ pc[1] = "loop"
    /\ filter[1] = K2("b", K1("c", S("9")), "a", S("1"))
    /\ pos[1] = 2
    /\ Hash(<<"b", "c", "9">>) \notin DOMAIN index
    /\ pc[2] = "yielding"
    /\ Cardinality(yielded[2]) = 1
    /\ Cardinality(pending[2]) = 1

(* C8. Include pruning is transparent: whenever find(F) gets past the     *)
(* check on the engine built with an include specification, it yields the  *)
(* ids that find(F) yields on an engine built from the same documents with *)
(* no include specification.                                               *)
C8_PruningTransparent ==
    \A p \in Callers :
        LET plain == FindAlone(_build_index(docs, None), filter[p])
        IN  /\ Started(p) => plain.err = "ok"
            /\ pc[p] = "yielding" => pending[p] \cup yielded[p] = plain.ids
            /\ pc[p] = "done" => yielded[p] = plain.ids

C8_Witness ==
    \E p \in Callers :
        /\ include = K2("a", True, "b", K2("c", False, "d", True))
        /\ index # _build_index(docs, None).index
        /\ pc[p] = "done"
        /\ filter[p] = K2("a", S("1"), "b", K1("d", S("1")))
        /\ yielded[p] # {}

(* C9, as claimed. Index invariant: for every hash h and document id d,   *)
(* d is in index[h] if and only if at least one root-to-leaf branch of the *)
(* document with id d hashes to h, whatever the include specification.     *)
C9_IndexInvariant_AllBranches ==
    \A i \in 1..Len(docs) :
        \A h \in DOMAIN index
                 \cup UNION { { Hash(b) : b \in DocBranches(docs[j]) } : j \in 1..Len(docs) } :
            doc_id(docs[i]) \in TableGet(index, h, {})
                <=> \E b \in DocBranches(docs[i]) : Hash(b) = h

(* C9, amended. d is in index[h] if and only if at least one branch of    *)
(* the document with id d that the include specification keeps hashes to   *)
(* h (every branch is kept when there is no include specification).        *)
C9_IndexInvariant_KeptBranches ==
    \A i \in 1..Len(docs) :
        \A h \in DOMAIN index
                 \cup UNION { { Hash(b) : b \in DocBranches(docs[j]) } : j \in 1..Len(docs) } :
            doc_id(docs[i]) \in TableGet(index, h, {})
                <=> \E b \in DocBranches(docs[i]) : Kept(b, include) /\ Hash(b) = h

C9_Witness ==
    /\ include = K2("a", True, "b", K2("c", False, "d", True))
    /\ Len(docs) = 2
    /\ DOMAIN index # {}
    /\ \E b \in DocBranches(docs[1]) : b[1] # "_id" /\ Kept(b, include)
    /\ \E b \in DocBranches(docs[2]) : ~Kept(b, include)

(* C10. Early exit: once the running intersection of a find is empty, no  *)
(* later branch of the filter is hashed or looked up.                      *)
C10_EarlyExit ==
    [][ \A p \in Callers :
          (pc[p] = "loop" /\ ~result[p].isNone /\ result[p].ids = {})
             => ~(pos'[p] > pos[p]) ]_vars

====
